---- MODULE Spec2Model ----
(***************************************************************************)
(* NeuralNetworkTrainer (src/training/nn_trainer.py): the logging, image   *)
(* dumping and checkpoint writing of one grid cell's trainer, modelled as  *)
(* a state machine over the output directory and the history of calls.     *)
(***************************************************************************)
EXTENDS Integers, Sequences, FiniteSets, TLC

VARIABLES
    settings,        \* self.cc.settings, the configuration read at every call
    population_gen,  \* self.population_gen.individuals
    population_dis,  \* self.population_dis.individuals
    fs,              \* the files of cc.output_dir: path -> last write
    log,             \* the calls made so far, each with the writes it performed
    rng,             \* number of noise tensors drawn so far
    clock            \* datetime.now(), in ticks

vars == <<settings, population_gen, population_dis, fs, log, rng, clock>>

----------------------------------------------------------------------------
(* Bounds of the model *)

MaxCalls == 2        \* calls per behaviour
MaxPop == 3          \* individuals per population handed to save_checkpoint
MaxGenPop == 6       \* individuals of the trainer's generator population
MaxIteration == 1    \* iteration numbers 0..MaxIteration

(* Program constants *)

GENERATOR_PREFIX == "generator-"
DISCRIMINATOR_PREFIX == "discriminator-"
MaxSavedImages == 128
MaxPrintedGenerators == 5

(* Environment the trainer is constructed with *)

OutputDir == "output"
network_factory == [gen_input_size |-> 100]

----------------------------------------------------------------------------
(* Python helpers *)

Min(a, b) == IF a < b THEN a ELSE b

\* dict.get(key, default)
DictGet(d, key, default) == IF key \in DOMAIN d THEN d[key] ELSE default

\* hasattr(obj, name)
HasAttr(obj, name) == name \in obj.attrs

\* Python values of the 'sample_count' setting: a bool or an int
PyBool(b) == [kind |-> "bool", val |-> IF b THEN 1 ELSE 0]
PyInt(n) == [kind |-> "int", val |-> n]

\* truth value of a bool or an int
Truthy(v) == v.val # 0

\* '{}'.format(n) of an int
FormatInt(n) == ToString(n)

\* '{}'.format(x) of the float x = d * 1e-4, 1 <= d <= 9
FormatRate(d) == "0.000" \o ToString(d)

\* os.path.join(dir, name) of a relative name
OsPathJoin(dir, name) == dir \o "/" \o name

\* an optional argument: None is <<>>, a value v is <<v>>
None == <<>>
Some(v) == <<v>>

----------------------------------------------------------------------------
(* save_checkpoint *)

WeightFileName(prefix, cell_number, local_id) ==
    prefix \o FormatInt(cell_number) \o "-" \o FormatInt(local_id) \o ".pkl"

CheckpointFileName(cell_number) ==
    "checkpoint-" \o FormatInt(cell_number) \o ".yml"

\* the dict built for one individual
IndividualEntry(individual) ==
    [id |-> individual.id,
     is_local |-> individual.is_local,
     fitness |-> individual.fitness,
     source |-> individual.source]

\* torch.save(individual.genome.net.state_dict(), path)
TorchSave(individual, path) ==
    [via |-> "torch", path |-> path, data |-> individual.genome]

\* Faulty variant of the loop: only local individuals get an entry.
RECURSIVE IndividualsLoopLocalEntriesOnly(_, _, _, _, _, _)
IndividualsLoopLocalEntriesOnly(individuals, prefix, cell_number, i, local_id, acc) ==
    IF i > Len(individuals) THEN acc
    ELSE LET individual == individuals[i]
             indiv == IndividualEntry(individual)
         IN  IF indiv.is_local
             THEN IndividualsLoopLocalEntriesOnly(individuals, prefix, cell_number,
                      i + 1, local_id + 1,
                      [entries |-> Append(acc.entries, indiv),
                       writes |-> Append(acc.writes,
                           TorchSave(individual,
                               OsPathJoin(OutputDir,
                                   WeightFileName(prefix, cell_number, local_id))))])
             ELSE IndividualsLoopLocalEntriesOnly(individuals, prefix, cell_number,
                      i + 1, local_id, acc)

\* Faulty variant of the loop: a non-local individual consumes an index too.
RECURSIVE IndividualsLoopIndexEveryone(_, _, _, _, _, _)
IndividualsLoopIndexEveryone(individuals, prefix, cell_number, i, local_id, acc) ==
    IF i > Len(individuals) THEN acc
    ELSE LET individual == individuals[i]
             indiv == IndividualEntry(individual)
             entries == Append(acc.entries, indiv)
         IN  IF indiv.is_local
             THEN IndividualsLoopIndexEveryone(individuals, prefix, cell_number,
                      i + 1, local_id + 1,
                      [entries |-> entries,
                       writes |-> Append(acc.writes,
                           TorchSave(individual,
                               OsPathJoin(OutputDir,
                                   WeightFileName(prefix, cell_number, local_id))))])
             ELSE IndividualsLoopIndexEveryone(individuals, prefix, cell_number,
                      i + 1, local_id + 1,
                      [entries |-> entries, writes |-> acc.writes])

\* the for loop of get_individuals_information from position i on
RECURSIVE IndividualsLoop(_, _, _, _, _, _)
IndividualsLoop(individuals, prefix, cell_number, i, local_id, acc) ==
    IF i > Len(individuals) THEN acc
    ELSE LET individual == individuals[i]
             indiv == IndividualEntry(individual)
             entries == Append(acc.entries, indiv)
         IN  IF indiv.is_local
             THEN IndividualsLoop(individuals, prefix, cell_number, i + 1, local_id + 1,
                      [entries |-> entries,
                       writes |-> Append(acc.writes,
                           TorchSave(individual,
                               OsPathJoin(OutputDir,
                                   WeightFileName(prefix, cell_number, local_id))))])
             ELSE IndividualsLoop(individuals, prefix, cell_number, i + 1, local_id,
                      [entries |-> entries, writes |-> acc.writes])

\* Faulty variant: the learning rate of the last individual.
PopulationLearningRateOfLast(individuals) ==
    FormatRate(individuals[Len(individuals)].learning_rate)

\* learning rate recorded for a non-empty population
PopulationLearningRate(individuals) == FormatRate(individuals[1].learning_rate)

\* get_individuals_information: the dict returned and the weight files written
GetIndividualsInformation(individuals, prefix, cell_number) ==
    IF Len(individuals) > 0
    THEN LET r == IndividualsLoop(individuals, prefix, cell_number, 1, 0,
                      [entries |-> <<>>, writes |-> <<>>])
         IN  [info |-> [learning_rate |-> PopulationLearningRate(individuals),
                        individuals |-> r.entries],
              writes |-> r.writes]
    ELSE [info |-> <<>>, writes |-> <<>>]

\* the checkpoint dict
CheckpointDict(gen_info, dis_info, generators, cell_number, grid_position, grid_size, now) ==
    [time |-> now,
     generators |-> gen_info,
     discriminators |-> dis_info,
     id |-> cell_number,
     iteration |-> generators[1].iteration,
     position |-> [x |-> grid_position[1], y |-> grid_position[2]],
     grid_size |-> grid_size]

\* with open(path, 'w') as file: yaml.dump(checkpoint, file)
YamlDump(doc, path) == [via |-> "yaml", path |-> path, data |-> doc]

\* the files after a sequence of writes, the last write of a path winning
RECURSIVE ApplyWrites(_, _)
ApplyWrites(files, writes) ==
    IF writes = <<>> THEN files
    ELSE LET w == Head(writes)
         IN  ApplyWrites([p \in DOMAIN files \cup {w.path} |->
                            IF p = w.path THEN w ELSE files[p]],
                         Tail(writes))

\* everything save_checkpoint writes, and whether it raises (generators[0] of
\* an empty list, after both populations' weight files were written)
CheckpointCall(generators, discriminators, cell_number, grid_position, grid_size, now) ==
    LET g == GetIndividualsInformation(generators, GENERATOR_PREFIX, cell_number)
        d == GetIndividualsInformation(discriminators, DISCRIMINATOR_PREFIX, cell_number)
    IN  IF Len(generators) = 0
        THEN [op |-> "save_checkpoint", raised |-> TRUE,
              generators |-> generators, discriminators |-> discriminators,
              cell_number |-> cell_number, grid_position |-> grid_position,
              grid_size |-> grid_size,
              writes |-> g.writes \o d.writes]
        ELSE [op |-> "save_checkpoint", raised |-> FALSE,
              generators |-> generators, discriminators |-> discriminators,
              cell_number |-> cell_number, grid_position |-> grid_position,
              grid_size |-> grid_size,
              writes |-> g.writes \o d.writes \o
                  <<YamlDump(CheckpointDict(g.info, d.info, generators, cell_number,
                                            grid_position, grid_size, now),
                             OsPathJoin(OutputDir, CheckpointFileName(cell_number)))>>]

----------------------------------------------------------------------------
(* Inputs of save_checkpoint *)

\* the i-th individual of a population of n handed to save_checkpoint; role
\* is "g" or "d". The learning rate (in units of 1e-4) differs between
\* neighbours of a population and, for the first individual, between
\* populations of different sizes.
Individual(role, i, n, local) ==
    [id |-> role \o FormatInt(i),
     is_local |-> local,
     fitness |-> 10 * i,
     source |-> "10.0.0." \o FormatInt(i) \o ":5000",
     learning_rate |-> ((i + n) % 4) + 1,
     iteration |-> 20 * n - i,
     genome |-> "net-" \o role \o FormatInt(i)]

\* which individuals are local: generators local, remote, local, ...;
\* discriminators remote, local, local, ...
GenLocal(i) == i % 2 = 1
DisLocal(i) == i > 1

GeneratorLists == { [i \in 1..n |-> Individual("g", i, n, GenLocal(i))] : n \in 0..MaxPop }
DiscriminatorLists == { [i \in 1..n |-> Individual("d", i, n, DisLocal(i))] : n \in 0..MaxPop }
CellNumbers == {1, 11}
GridPositions == {<<1, 2>>}
GridSizes == {4}

----------------------------------------------------------------------------
(* Initial state: a constructed trainer and an empty output directory *)

TrainerIndividual(role, i) ==
    [genome |-> [net |-> "net-" \o role \o FormatInt(i)], fitness |-> i]

SampleCountSettings == {PyInt(0), PyInt(200)}

DataloaderSettings ==
    { ("dataset_name" :> name) : name \in {"mnist", "network_traffic"} }
    \cup { ("dataset_name" :> name) @@ ("sample_count" :> sc) :
              name \in {"mnist", "network_traffic"}, sc \in SampleCountSettings }

LoggingSettings ==
    { ("image_format" :> "jpg") @@ a @@ b :
        a \in {<<>>, "print_multiple_generators" :> TRUE},
        b \in {<<>>, "print_discriminator" :> TRUE} }

\* <<generators, discriminators>> of the trainer: no, one, MaxGenPop - 1 or
\* MaxGenPop generators with one discriminator, and the trainers that lack a
\* discriminator
TrainerPopulationSizes ==
    { <<n, 1>> : n \in {0, 1, MaxGenPop - 1, MaxGenPop} }
    \cup { <<n, 0>> : n \in {0, 1} }

Init ==
    /\ settings \in { [dataloader |-> dl, general |-> [logging |-> lg]] :
                        dl \in DataloaderSettings, lg \in LoggingSettings }
    /\ \E sizes \in TrainerPopulationSizes :
          /\ population_gen = [i \in 1..sizes[1] |-> TrainerIndividual("g", i)]
          /\ population_dis = [i \in 1..sizes[2] |-> TrainerIndividual("d", i)]
    /\ fs = <<>>
    /\ log = <<>>
    /\ rng = 0
    /\ clock = 0

\* save_checkpoint reads nothing of the trainer but cc.output_dir
InitCheckpoint ==
    /\ settings = [dataloader |-> ("dataset_name" :> "mnist"),
                   general |-> [logging |-> ("image_format" :> "jpg")]]
    /\ population_gen = <<TrainerIndividual("g", 1)>>
    /\ population_dis = <<TrainerIndividual("d", 1)>>
    /\ fs = <<>>
    /\ log = <<>>
    /\ rng = 0
    /\ clock = 0

SaveCheckpoint ==
    /\ Len(log) < MaxCalls
    /\ \E generators \in GeneratorLists, discriminators \in DiscriminatorLists,
          cell_number \in CellNumbers, grid_position \in GridPositions,
          grid_size \in GridSizes :
          LET call == CheckpointCall(generators, discriminators, cell_number,
                                     grid_position, grid_size, clock)
          IN  /\ log' = Append(log, call)
              /\ fs' = ApplyWrites(fs, call.writes)
    /\ clock' = clock + 1
    /\ UNCHANGED <<settings, population_gen, population_dis, rng>>

NextCheckpoint == SaveCheckpoint

SpecCheckpoint == InitCheckpoint /\ [][NextCheckpoint]_vars

----------------------------------------------------------------------------
(* log_results and save_images *)

\* noise(batch_size, gen_input_size): a fresh random tensor of batch_size rows
Noise(batch_size, size, draw) ==
    [n |-> batch_size, size |-> size, seq |-> None, draw |-> draw]

\* z.unsqueeze(1).repeat(1, sequence_length, 1)
RepeatSequence(z, sequence_length) == [z EXCEPT !.seq = Some(sequence_length)]

\* gen.eval(); gen(z); gen.train()
Generate(individual, z) == [net |-> individual.genome.net, z |-> z, mode |-> "eval"]

\* one call of a save_images method of the dataset or of the trainer's dataloader
ImageWrite(via, images, shape, path, discr) ==
    [via |-> via, path |-> path, data |-> images, shape |-> shape, discr |-> discr]

\* Faulty variant: every generator of the population is printed.
PrintedGeneratorsUncapped(individuals) == Len(individuals)

\* how many generators are printed with print_multiple_generators
PrintedGenerators(individuals) == Min(Len(individuals), MaxPrintedGenerators)

\* Faulty variant: the real images are saved at every iteration.
SavesRealImagesAlways(iteration, path_real) == path_real # None

\* the iteration whose call saves the real images
SavesRealImages(iteration, path_real) == iteration = 0 /\ path_real # None

\* the noise tensor save_images draws
SaveImagesNoise(batch_size, input_var, loader, draw) ==
    LET z == Noise(batch_size, network_factory.gen_input_size, draw)
    IN  IF HasAttr(loader.dataset, "save_images")
           /\ settings.dataloader["dataset_name"] = "network_traffic"
        THEN RepeatSequence(z, input_var.size1)
        ELSE z

\* save_images on a dataset with its own image conversion method
SaveImagesDataset(batch_size, input_var, iteration, loader, path_fake, path_real, draw) ==
    LET logging == settings.general.logging
        real == IF SavesRealImages(iteration, path_real)
                THEN <<ImageWrite("dataset", input_var, None, path_real[1], None)>>
                ELSE <<>>
        z == SaveImagesNoise(batch_size, input_var, loader, draw)
        generated_output ==
            IF DictGet(logging, "print_multiple_generators", FALSE)
            THEN [multiple |-> TRUE,
                  outputs |-> [i \in 1..PrintedGenerators(population_gen) |->
                                  Generate(population_gen[i], z)]]
            ELSE [multiple |-> FALSE,
                  outputs |-> <<Generate(population_gen[1], z)>>]
        print_discriminator == DictGet(logging, "print_discriminator", FALSE)
        discr == IF print_discriminator THEN Some(population_dis[1].genome) ELSE None
    IN  real \o <<ImageWrite("dataset", generated_output, None, path_fake, discr)>>

\* save_images through the trainer's dataloader
SaveImagesDataloader(batch_size, input_var, iteration, loader, path_fake, path_real, draw) ==
    LET shape == IF HasAttr(loader.dataset, "train_data")
                 THEN Some(loader.dataset.train_data_shape)
                 ELSE None
        real == IF SavesRealImages(iteration, path_real)
                THEN <<ImageWrite("dataloader", input_var, shape, path_real[1], None)>>
                ELSE <<>>
        z == SaveImagesNoise(batch_size, input_var, loader, draw)
        generated_output == [multiple |-> FALSE,
                             outputs |-> <<Generate(population_gen[1], z)>>]
    IN  real \o <<ImageWrite("dataloader", generated_output, shape, path_fake, None)>>

\* save_images: the writes it performs, in order
SaveImages(batch_size, input_var, iteration, loader, path_fake, path_real, draw) ==
    IF HasAttr(loader.dataset, "save_images")
    THEN SaveImagesDataset(batch_size, input_var, iteration, loader, path_fake, path_real, draw)
    ELSE SaveImagesDataloader(batch_size, input_var, iteration, loader, path_fake, path_real, draw)

\* Faulty variant: the cap of 128 applies to a configured sample_count too.
SampleCountCapped(batch_size) ==
    LET sample_count == DictGet(settings.dataloader, "sample_count", PyBool(FALSE))
    IN  Min(IF Truthy(sample_count) THEN sample_count.val ELSE batch_size,
            MaxSavedImages)

\* the number of images log_results asks for
SampleCount(batch_size) ==
    LET sample_count == DictGet(settings.dataloader, "sample_count", PyBool(FALSE))
    IN  IF Truthy(sample_count) THEN sample_count.val
        ELSE Min(batch_size, MaxSavedImages)

RealImagesFileName(image_format) == "real_images." \o image_format

FakeImagesFileName(iteration, image_format) ==
    "fake_images-" \o FormatInt(iteration + 1) \o "." \o image_format

\* log_results: it raises at the logging of individuals[0].fitness when a
\* population of the trainer is empty, before anything is written
LogResultsCall(batch_size, iteration, input_var, loader, draw) ==
    LET image_format == settings.general.logging["image_format"]
        path_real == OsPathJoin(OutputDir, RealImagesFileName(image_format))
        path_fake == OsPathJoin(OutputDir, FakeImagesFileName(iteration, image_format))
        count == SampleCount(batch_size)
    IN  IF Len(population_gen) = 0 \/ Len(population_dis) = 0
        THEN [op |-> "log_results", raised |-> TRUE,
              batch_size |-> batch_size, iteration |-> iteration,
              input_var |-> input_var, loader |-> loader,
              z |-> None, writes |-> <<>>, ret |-> None]
        ELSE [op |-> "log_results", raised |-> FALSE,
              batch_size |-> batch_size, iteration |-> iteration,
              input_var |-> input_var, loader |-> loader,
              z |-> Some(SaveImagesNoise(count, input_var, loader, draw)),
              writes |-> SaveImages(count, input_var, iteration, loader,
                                    path_fake, Some(path_real), draw),
              ret |-> Some(<<path_real, path_fake>>)]

(* Inputs of log_results *)

BatchSizes == {64, 200}
Iterations == 0..MaxIteration
InputVars == {[name |-> "batch", size1 |-> 8]}
Loaders ==
    { [dataset |-> [attrs |-> attrs, train_data_shape |-> "60000x28x28"]] :
        attrs \in {{"save_images"}, {"train_data"}, {}} }

LogResults ==
    /\ Len(log) < MaxCalls
    /\ \E batch_size \in BatchSizes, iteration \in Iterations,
          input_var \in InputVars, loader \in Loaders :
          LET call == LogResultsCall(batch_size, iteration, input_var, loader, rng)
          IN  /\ log' = Append(log, call)
              /\ fs' = ApplyWrites(fs, call.writes)
              /\ rng' = IF call.raised THEN rng ELSE rng + 1
    /\ UNCHANGED <<settings, population_gen, population_dis, clock>>

NextLog == LogResults

SpecLog == Init /\ [][NextLog]_vars

----------------------------------------------------------------------------
(* Properties of save_checkpoint, over SpecCheckpoint *)

\* the calls of save_checkpoint made so far
CheckpointCalls == { k \in 1..Len(log) : log[k].op = "save_checkpoint" }

\* the local individuals of a population, in population order
LocalIndividuals(individuals) ==
    LET IsLocal(individual) == individual.is_local
    IN  SelectSeq(individuals, IsLocal)

\* the weight files a population must produce: one per local individual,
\* numbered from 0 in population order
ExpectedWeightWrites(individuals, prefix, cell_number) ==
    LET locals == LocalIndividuals(individuals)
    IN  [k \in 1..Len(locals) |->
            [via |-> "torch",
             path |-> "output/" \o prefix \o ToString(cell_number) \o "-"
                        \o ToString(k - 1) \o ".pkl",
             data |-> locals[k].genome]]

ExpectedCheckpointPath(cell_number) ==
    "output/checkpoint-" \o ToString(cell_number) \o ".yml"

\* the writes of a call that go through yaml.dump / torch.save
YamlWrites(call) ==
    LET IsYaml(w) == w.via = "yaml" IN SelectSeq(call.writes, IsYaml)
TorchWrites(call) ==
    LET IsTorch(w) == w.via = "torch" IN SelectSeq(call.writes, IsTorch)

\* a population's part of the checkpoint lists the individuals handed in,
\* one entry each, in order, with the four fields unchanged
ListsIndividuals(info, individuals) ==
    IF Len(individuals) = 0
    THEN "individuals" \notin DOMAIN info
    ELSE /\ "individuals" \in DOMAIN info
         /\ Len(info.individuals) = Len(individuals)
         /\ \A i \in 1..Len(individuals) :
              /\ DOMAIN info.individuals[i] = {"id", "is_local", "fitness", "source"}
              /\ info.individuals[i].id = individuals[i].id
              /\ info.individuals[i].is_local = individuals[i].is_local
              /\ info.individuals[i].fitness = individuals[i].fitness
              /\ info.individuals[i].source = individuals[i].source

\* C1: a save_checkpoint that returns normally with non-empty generators has
\* written exactly one checkpoint, to checkpoint-<cell_number>.yml, which
\* lists every individual of both populations (local or not) once, in
\* population order, with id, is_local, fitness and source unchanged, and
\* carries id = cell_number, iteration = generators[0].iteration, the
\* position x/y = grid_position[0]/[1] and grid_size; right after the call
\* the file holds that checkpoint.
C1_CheckpointContents ==
    \A k \in CheckpointCalls :
        LET call == log[k]
            yamls == YamlWrites(call)
        IN  (~call.raised /\ Len(call.generators) > 0) =>
              /\ Len(yamls) = 1
              /\ yamls[1].path = ExpectedCheckpointPath(call.cell_number)
              /\ ListsIndividuals(yamls[1].data.generators, call.generators)
              /\ ListsIndividuals(yamls[1].data.discriminators, call.discriminators)
              /\ yamls[1].data.id = call.cell_number
              /\ yamls[1].data.iteration = call.generators[1].iteration
              /\ yamls[1].data.position = [x |-> call.grid_position[1],
                                           y |-> call.grid_position[2]]
              /\ yamls[1].data.grid_size = call.grid_size
              /\ (k = Len(log) =>
                    /\ yamls[1].path \in DOMAIN fs
                    /\ fs[yamls[1].path] = yamls[1])

\* a checkpoint of populations of several individuals, local and non-local
C1_Witness ==
    \E k \in CheckpointCalls :
        /\ ~log[k].raised
        /\ Len(log[k].generators) >= 3
        /\ Len(log[k].discriminators) >= 3
        /\ \E i, j \in 1..Len(log[k].generators) :
              log[k].generators[i].is_local /\ ~log[k].generators[j].is_local
        /\ ExpectedCheckpointPath(log[k].cell_number) \in DOMAIN fs

\* the positions in call.writes of the writes to a path
WritesTo(call, path) == { i \in 1..Len(call.writes) : call.writes[i].path = path }

\* the paths a call writes
PathsOf(call) == { call.writes[i].path : i \in 1..Len(call.writes) }

\* the paths of the weight files a call wrote for its generators (the first
\* torch.save calls, one per local generator) and for its discriminators
GeneratorWeightPaths(call) ==
    { TorchWrites(call)[i].path :
        i \in 1..Min(Len(LocalIndividuals(call.generators)), Len(TorchWrites(call))) }
DiscriminatorWeightPaths(call) ==
    { TorchWrites(call)[i].path :
        i \in (Len(LocalIndividuals(call.generators)) + 1)..Len(TorchWrites(call)) }
CheckpointPaths(call) == { YamlWrites(call)[i].path : i \in 1..Len(YamlWrites(call)) }

\* C2: a save_checkpoint call (returning or not) writes the weights of
\* exactly the local individuals: for each population, one file
\* <prefix><cell_number>-<k>.pkl per local individual, k = 0..n-1 in
\* population order, generators under 'generator-' and discriminators under
\* 'discriminator-'. No call writes a path twice (so no two individuals of
\* a call share a file), no generator's weight file is a discriminator's or
\* a checkpoint file, in one call or across calls, and calls with different
\* cell numbers write disjoint sets of paths.
C2_WeightFiles ==
    /\ \A k \in CheckpointCalls :
          LET call == log[k]
          IN  /\ TorchWrites(call) =
                    ExpectedWeightWrites(call.generators, "generator-", call.cell_number)
                    \o ExpectedWeightWrites(call.discriminators, "discriminator-",
                                            call.cell_number)
              /\ \A i, j \in 1..Len(call.writes) :
                    call.writes[i].path = call.writes[j].path => i = j
    /\ \A k1, k2 \in CheckpointCalls :
          /\ GeneratorWeightPaths(log[k1]) \cap DiscriminatorWeightPaths(log[k2]) = {}
          /\ GeneratorWeightPaths(log[k1]) \cap CheckpointPaths(log[k2]) = {}
          /\ DiscriminatorWeightPaths(log[k1]) \cap CheckpointPaths(log[k2]) = {}
          /\ log[k1].cell_number # log[k2].cell_number =>
                PathsOf(log[k1]) \cap PathsOf(log[k2]) = {}

\* two cells have checkpointed into the directory, both with local
\* individuals after a non-local one and in both populations
C2_Witness ==
    \E k1, k2 \in CheckpointCalls :
        /\ log[k1].cell_number # log[k2].cell_number
        /\ \A k \in {k1, k2} :
              /\ ~log[k].raised
              /\ Len(LocalIndividuals(log[k].generators)) >= 2
              /\ Len(LocalIndividuals(log[k].generators)) < Len(log[k].generators)
              /\ Len(LocalIndividuals(log[k].discriminators)) >= 2
              /\ ~log[k].discriminators[1].is_local

RateStrings == <<"0.0001", "0.0002", "0.0003", "0.0004">>

\* C6: in the checkpoint a non-empty population carries the learning rate of
\* its first individual, as a string, whatever the learning rates of the
\* others; an empty population is an empty mapping (neither 'learning_rate'
\* nor 'individuals') and has no weight file written; in a call that returns
\* normally only the discriminators can be empty.
C6_LearningRate ==
    \A k \in CheckpointCalls :
        LET call == log[k]
            Recorded(info, individuals) ==
                IF Len(individuals) > 0
                THEN /\ "learning_rate" \in DOMAIN info
                     /\ info.learning_rate = RateStrings[individuals[1].learning_rate]
                ELSE DOMAIN info = {}
        IN  /\ ~call.raised =>
                 /\ Len(call.generators) > 0
                 /\ Recorded(YamlWrites(call)[1].data.generators, call.generators)
                 /\ Recorded(YamlWrites(call)[1].data.discriminators, call.discriminators)
            /\ Len(call.generators) = 0 =>
                 TorchWrites(call) =
                    ExpectedWeightWrites(call.discriminators, "discriminator-",
                                         call.cell_number)
            /\ Len(call.discriminators) = 0 =>
                 TorchWrites(call) =
                    ExpectedWeightWrites(call.generators, "generator-", call.cell_number)

\* one checkpoint with an empty discriminator population, and one whose
\* populations' first learning rate differs from a later individual's
C6_Witness ==
    /\ \E k \in CheckpointCalls :
          /\ ~log[k].raised
          /\ Len(log[k].discriminators) = 0
    /\ \E k \in CheckpointCalls :
          /\ ~log[k].raised
          /\ \E i \in 2..Len(log[k].generators) :
                log[k].generators[i].learning_rate # log[k].generators[1].learning_rate
          /\ \E i \in 2..Len(log[k].discriminators) :
                log[k].discriminators[i].learning_rate # log[k].discriminators[1].learning_rate

----------------------------------------------------------------------------
(* Properties of log_results and save_images, over SpecLog *)

\* the calls of log_results that returned
LogCalls == { k \in 1..Len(log) : log[k].op = "log_results" /\ ~log[k].raised }

\* the images written by a call: to the real images' path, and elsewhere
RealWrites(call) ==
    { i \in 1..Len(call.writes) :
        call.writes[i].path = "output/real_images." \o settings.general.logging.image_format }
FakeWrites(call) == (1..Len(call.writes)) \ RealWrites(call)

\* the noise tensors behind the generated images of a write
NoiseOf(w) == { w.data.outputs[i].z : i \in 1..Len(w.data.outputs) }

\* C3: the number of noise samples log_results passes to the generator(s) is
\* the configured 'sample_count' when that setting is present and non-zero,
\* also when it exceeds 128 or batch_size, and min(batch_size, 128) when it
\* is absent or 0; every generated image batch of the call comes from noise
\* of that size.
C3_SampleCount ==
    \A k \in LogCalls :
        LET call == log[k]
            dl == settings.dataloader
            expected ==
                IF "sample_count" \in DOMAIN dl /\ dl.sample_count.val # 0
                THEN dl.sample_count.val
                ELSE IF call.batch_size <= 128 THEN call.batch_size ELSE 128
        IN  /\ call.z # <<>>
            /\ call.z[1].n = expected
            /\ \A i \in FakeWrites(call) :
                  \A z \in NoiseOf(call.writes[i]) : z.n = expected

\* calls with a configured sample_count above 128 and above batch_size, and
\* generated images written
C3_Witness ==
    /\ "sample_count" \in DOMAIN settings.dataloader
    /\ settings.dataloader.sample_count.val > 128
    /\ \E k \in LogCalls :
          /\ log[k].batch_size < settings.dataloader.sample_count.val
          /\ FakeWrites(log[k]) # {}

\* the calls of the log have pairwise distinct iterations
DistinctIterations ==
    \A k1, k2 \in 1..Len(log) : log[k1].iteration = log[k2].iteration => k1 = k2

\* C4: every log_results call that returns has written the generated images
\* once, to fake_images-<iteration+1>.<format>, has written the real images
\* (to real_images.<format>) exactly when its iteration is 0, and returns
\* (path_real, path_fake) either way; so over calls with pairwise distinct
\* iterations the real images are written at most once and no two calls
\* write the same generated-images file.
C4_RealImagesOnce ==
    LET fmt == settings.general.logging.image_format
        path_real == "output/real_images." \o fmt
        PathFake(call) ==
            "output/fake_images-" \o ToString(call.iteration + 1) \o "." \o fmt
    IN  /\ \A k \in LogCalls :
              LET call == log[k]
              IN  /\ Cardinality(WritesTo(call, PathFake(call))) = 1
                  /\ Cardinality(WritesTo(call, path_real)) =
                        IF call.iteration = 0 THEN 1 ELSE 0
                  /\ Len(call.writes) = IF call.iteration = 0 THEN 2 ELSE 1
                  /\ call.ret = <<(<<path_real, PathFake(call)>>)>>
                  /\ (k = Len(log) => fs[PathFake(call)] = call.writes[Len(call.writes)])
        /\ DistinctIterations =>
              /\ Cardinality({ k \in LogCalls : WritesTo(log[k], path_real) # {} }) <= 1
              /\ \A k1, k2 \in LogCalls :
                    k1 # k2 => PathsOf(log[k1]) \cap PathsOf(log[k2]) = {}

\* two returned calls with distinct iterations, the later one with iteration
\* 0, so that the real images were written by the second call only
C4_Witness ==
    /\ Len(log) >= 2
    /\ DistinctIterations
    /\ \E k1, k2 \in LogCalls :
          /\ k1 < k2
          /\ log[k1].iteration # 0
          /\ log[k2].iteration = 0
          /\ RealWrites(log[k2]) # {}

\* C5: a log_results call writes all its images through the dataset's
\* save_images when the dataset has one, and through the trainer's
\* dataloader otherwise. On the dataset's side, 'print_multiple_generators'
\* makes the output the list of the outputs of the first
\* min(len(population_gen), 5) generators, in population order and from one
\* noise tensor, and the first discriminator's genome is passed exactly when
\* 'print_discriminator' is set (None otherwise); on the dataloader's side
\* the output is generator 0's alone and no discriminator is passed,
\* whatever the two settings.
C5_Dispatch ==
    \A k \in LogCalls :
        LET call == log[k]
            logging == settings.general.logging
            multiple == "print_multiple_generators" \in DOMAIN logging
                        /\ logging.print_multiple_generators
            with_discr == "print_discriminator" \in DOMAIN logging
                          /\ logging.print_discriminator
            printed == IF Len(population_gen) <= 5 THEN Len(population_gen) ELSE 5
        IN  IF "save_images" \in call.loader.dataset.attrs
            THEN /\ \A i \in 1..Len(call.writes) : call.writes[i].via = "dataset"
                 /\ \A i \in FakeWrites(call) :
                       LET w == call.writes[i]
                       IN  /\ w.data.multiple = multiple
                           /\ Len(w.data.outputs) = IF multiple THEN printed ELSE 1
                           /\ \A j \in 1..Len(w.data.outputs) :
                                 w.data.outputs[j].net = population_gen[j].genome.net
                           /\ Cardinality(NoiseOf(w)) = 1
                           /\ w.discr = IF with_discr
                                        THEN <<population_dis[1].genome>>
                                        ELSE <<>>
            ELSE /\ \A i \in 1..Len(call.writes) : call.writes[i].via = "dataloader"
                 /\ \A i \in FakeWrites(call) :
                       LET w == call.writes[i]
                       IN  /\ ~w.data.multiple
                           /\ Len(w.data.outputs) = 1
                           /\ w.data.outputs[1].net = population_gen[1].genome.net
                           /\ w.discr = <<>>

\* with both settings on and more than five generators: a call on a dataset
\* with its own save_images and a call on one without, both writing real and
\* generated images
C5_Witness ==
    /\ DictGet(settings.general.logging, "print_multiple_generators", FALSE)
    /\ DictGet(settings.general.logging, "print_discriminator", FALSE)
    /\ Len(population_gen) > 5
    /\ \E k1, k2 \in LogCalls :
          /\ "save_images" \in log[k1].loader.dataset.attrs
          /\ "save_images" \notin log[k2].loader.dataset.attrs
          /\ log[k1].iteration = 0
          /\ log[k2].iteration = 0

====
